---------------------------- MODULE Spec2Model ----------------------------
(***************************************************************************)
(* A model of the astudios version manager: release resolution            *)
(* (src/src/list.rs), installed-version metadata (src/src/model.rs), the   *)
(* status annotation of the list command (src/src/commands.rs) and the    *)
(* bundle / alias bookkeeping of the installer (src/src/installer.rs).     *)
(*                                                                         *)
(* Strings are sequences of one-character strings, so that to_lowercase,   *)
(* contains, split_whitespace and == are computed character by character,  *)
(* as the Rust code computes them.                                         *)
(***************************************************************************)
EXTENDS Integers, Sequences, FiniteSets, TLC

VARIABLES
    feed,          \* items of the vendor feed, in feed order (ApiClient::fetch_releases)
    cacheFile,     \* releases.json in the cache directory: NoFile or CacheFile(age, items)
    query,         \* the query string the caller passed to find_version_by_query
    findResult,    \* what find_version_by_query returned
    listItem,          \* print_version_info: the release being printed
    installedStudios,  \* print_version_info: the installed list it is given
    activeStudio,      \* print_version_info: the active installation it is given
    status,            \* print_version_info: is_installed, is_selected and the annotation
    appsDir,           \* entries of the applications directory (bundles, the alias symlink)
    versionsDir,       \* entries of ~/.as-man/versions, one directory per downloaded version
    opResult,          \* the last installer / reader operation: its arguments and what it returned
    download           \* download_with_aria2: the child, the monitoring thread, the caller

findVars == <<feed, cacheFile, query, findResult>>
statusVars == <<listItem, installedStudios, activeStudio, status>>
diskVars == <<appsDir, versionsDir, opResult>>

vars == <<feed, cacheFile, query, findResult,
          listItem, installedStudios, activeStudio, status,
          appsDir, versionsDir, opResult, download>>

\* Option<T>
None == [some |-> FALSE]
Some(x) == [some |-> TRUE, value |-> x]

\* A file that does not exist; releases.json holding `items`, written `age` seconds ago
NoFile == [exists |-> FALSE]
CacheFile(age, items) == [exists |-> TRUE, age |-> age, items |-> items]

\* No call has returned yet
NoResult == [tag |-> "None"]
NoOp == [op |-> "none"]
\* No download has been started
NoDownload == [pc |-> "idle"]

(***************************************************************************)
(* Strings                                                                 *)
(***************************************************************************)
UpperChars == <<"A","B","C","D","E","F","G","H","I","J","K","L","M",
                "N","O","P","Q","R","S","T","U","V","W","X","Y","Z">>
LowerChars == <<"a","b","c","d","e","f","g","h","i","j","k","l","m",
                "n","o","p","q","r","s","t","u","v","w","x","y","z">>

\* char::to_lowercase on the ASCII range
LowerChar(c) ==
    IF \E i \in 1..Len(UpperChars) : UpperChars[i] = c
    THEN LowerChars[CHOOSE i \in 1..Len(UpperChars) : UpperChars[i] = c]
    ELSE c

\* str::to_lowercase
ToLowercase(s) == [i \in 1..Len(s) |-> LowerChar(s[i])]

\* str::contains(&str): t occurs in s as a contiguous substring
Contains(s, t) ==
    \E i \in 0..(Len(s) - Len(t)) : SubSeq(s, i + 1, i + Len(t)) = t

IsWhitespace(c) == c = " "

\* str::split_whitespace().collect(): the maximal runs of non-whitespace
RECURSIVE SplitFrom(_, _, _, _)
SplitFrom(s, i, cur, acc) ==
    IF i > Len(s)
    THEN IF cur = <<>> THEN acc ELSE Append(acc, cur)
    ELSE IF IsWhitespace(s[i])
         THEN SplitFrom(s, i + 1, <<>>, IF cur = <<>> THEN acc ELSE Append(acc, cur))
         ELSE SplitFrom(s, i + 1, Append(cur, s[i]), acc)

SplitWhitespace(s) == SplitFrom(s, 1, <<>>, <<>>)

\* Iterator::find: index of the first element whose predicate value is TRUE, 0 if none
FirstTrue(hits) ==
    IF \E i \in 1..Len(hits) : hits[i]
    THEN CHOOSE i \in 1..Len(hits) : hits[i] /\ \A j \in 1..(i - 1) : ~hits[j]
    ELSE 0

(***************************************************************************)
(* Release lookup: AndroidStudioLister                                     *)
(***************************************************************************)
\* Config::CACHE_DURATION_SECS
CACHE_DURATION_SECS == 60 * 60 * 24

\* A variant that still accepts a cache whose age equals the duration
LoadCachedReleasesInclusive(file) ==
    IF ~file.exists THEN None
    ELSE IF file.age <= CACHE_DURATION_SECS THEN Some(file.items)
    ELSE None

\* load_cached_releases: the cached items if the file exists and is young enough
LoadCachedReleases(file) ==
    IF ~file.exists THEN None
    ELSE IF file.age < CACHE_DURATION_SECS THEN Some(file.items)
    ELSE None

\* get_releases: [items returned, cache file afterwards]; the fetch succeeds
GetReleases(file, fetched) ==
    IF LoadCachedReleases(file).some
    THEN [items |-> LoadCachedReleases(file).value, file |-> file]
    ELSE [items |-> fetched, file |-> CacheFile(0, fetched)]

Ok(item) == [tag |-> "Ok", item |-> item]

\* AsManError::VersionNotFound(format!("Version '{}' not found. Use 'as-man list' ...", q))
NotFoundHint == "' not found. Use 'as-man list' to see available versions."
VersionNotFound(q) ==
    [tag |-> "Err", kind |-> "VersionNotFound",
     message |-> <<"Version '", q, NotFoundHint>>]

\* find_by_channel_query(items, query)
FindByChannelQuery(items, q) ==
    LET parts == SplitWhitespace(q)
        hit == IF Len(parts) >= 2
               THEN FirstTrue([i \in 1..Len(items) |->
                        /\ Contains(items[i].version, parts[1])
                        /\ ToLowercase(items[i].channel) = ToLowercase(parts[2])])
               ELSE 0
    IN  IF hit # 0 THEN Ok(items[hit]) ELSE VersionNotFound(q)

\* find_version_by_query on the items get_releases returned
FindVersionByQuery(items, queryArg) ==
    LET q  == ToLowercase(queryArg)
        s1 == FirstTrue([i \in 1..Len(items) |-> items[i].version = q])
        s2 == FirstTrue([i \in 1..Len(items) |->
                            Contains(ToLowercase(items[i].version), q)])
        s3 == FirstTrue([i \in 1..Len(items) |->
                            Contains(ToLowercase(items[i].name), q)])
        s4 == FirstTrue([i \in 1..Len(items) |->
                            Contains(ToLowercase(items[i].build), q)])
    IN  IF s1 # 0 THEN Ok(items[s1])
        ELSE IF s2 # 0 THEN Ok(items[s2])
        ELSE IF s3 # 0 THEN Ok(items[s3])
        ELSE IF s4 # 0 THEN Ok(items[s4])
        ELSE FindByChannelQuery(items, q)

(***************************************************************************)
(* Inputs of the release-lookup specification                              *)
(***************************************************************************)
MaxCatalog == 2
MaxQueryPieces == 3

Canary == <<"C","a","n","a","r","y">>
Release == <<"R","e","l","e","a","s","e">>

FeedVersions == {<<"1">>, <<"1","0">>, <<"R">>, <<"R","1">>}
FeedChannels == {Canary, Release}
\* <<name, build>>
FeedNameBuild == {<<(<<"K">>), (<<"A">>)>>, <<(<<"x">>), (<<"A">>)>>, <<(<<"K">>), (<<"x","1">>)>>}

FeedReleases ==
    {[name |-> nb[1], build |-> nb[2], version |-> v, channel |-> c] :
        nb \in FeedNameBuild, v \in FeedVersions, c \in FeedChannels}

RECURSIVE SeqsUpTo(_, _)
SeqsUpTo(S, n) ==
    IF n = 0 THEN {<<>>}
    ELSE LET shorter == SeqsUpTo(S, n - 1)
         IN  shorter \cup {Append(s, x) : s \in shorter, x \in S}

Catalogs == SeqsUpTo(FeedReleases, MaxCatalog)

QueryPieces == {<<"1">>, <<"R">>, <<" ">>, Canary, <<"x">>}

RECURSIVE Concat(_)
Concat(ss) == IF ss = <<>> THEN <<>> ELSE Head(ss) \o Concat(Tail(ss))

Queries == {Concat(ps) : ps \in SeqsUpTo(QueryPieces, MaxQueryPieces)}

(***************************************************************************)
(* Values of the variables a specification does not use                    *)
(***************************************************************************)
IdleFind ==
    /\ feed = <<>>
    /\ cacheFile = NoFile
    /\ query = <<>>
    /\ findResult = NoResult

IdleStatus ==
    /\ listItem = [name |-> <<>>, build |-> <<>>, version |-> <<>>, channel |-> <<>>]
    /\ installedStudios = <<>>
    /\ activeStudio = None
    /\ status = NoResult

IdleDisk ==
    /\ appsDir = {}
    /\ versionsDir = {}
    /\ opResult = NoOp

(***************************************************************************)
(* Release lookup as a state machine                                       *)
(***************************************************************************)
\* The cache is absent, or was written from this feed by an earlier run.
InitFind ==
    /\ download = NoDownload
    /\ feed \in Catalogs
    /\ cacheFile \in {NoFile, CacheFile(0, feed)}
    /\ query = <<>>
    /\ findResult = NoResult
    /\ IdleStatus
    /\ IdleDisk

\* find_version_by_query(q): get_releases (which may write the cache), then the stages.
\* The process handles one command and exits (main.rs), so one lookup per run.
FindVersion(q) ==
    LET got == GetReleases(cacheFile, feed)
    IN  /\ findResult = NoResult
        /\ query' = q
        /\ cacheFile' = got.file
        /\ findResult' = FindVersionByQuery(got.items, q)
        /\ UNCHANGED <<download, feed, statusVars, diskVars>>

NextFind == \E q \in Queries : FindVersion(q)

SpecFind == InitFind /\ [][NextFind]_vars


(***************************************************************************)
(* Claims about release lookup.  The six match stages as the               *)
(* specification states them, on the query as the caller gave it.          *)
(***************************************************************************)
StatedStage(n, it, q) ==
    CASE n = 1 -> it.version = q
      [] n = 2 -> Contains(ToLowercase(it.version), ToLowercase(q))
      [] n = 3 -> Contains(ToLowercase(it.name), ToLowercase(q))
      [] n = 4 -> Contains(ToLowercase(it.build), ToLowercase(q))
      [] n = 5 -> LET parts == SplitWhitespace(q)
                  IN  /\ Len(parts) >= 2
                      /\ Contains(it.version, parts[1])
                      /\ ToLowercase(it.channel) = ToLowercase(parts[2])
      [] n = 6 -> Contains(ToLowercase(it.version \o <<" ">> \o it.channel
                                       \o <<" ">> \o it.build),
                           ToLowercase(q))

StageHasMatch(n, items, q) == \E i \in 1..Len(items) : StatedStage(n, items[i], q)
FirstOfStage(n, items, q) ==
    items[CHOOSE i \in 1..Len(items) :
              /\ StatedStage(n, items[i], q)
              /\ \A j \in 1..(i - 1) : ~StatedStage(n, items[j], q)]

FindReturned == findResult.tag # "None"

\* C1: a successful find_version_by_query returns the first catalog entry, in
\* feed order, of the earliest of the six stages that has any match.
C1_FirstEntryOfEarliestStage ==
    (FindReturned /\ findResult.tag = "Ok") =>
        \E n \in 1..6 :
            /\ StageHasMatch(n, feed, query)
            /\ \A m \in 1..(n - 1) : ~StageHasMatch(m, feed, query)
            /\ findResult.item = FirstOfStage(n, feed, query)

\* C2: when some release's version equals the query as the caller gave it,
\* find_version_by_query returns the first such release in feed order.
C2_ExactVersionTakesPrecedence ==
    (FindReturned /\ StageHasMatch(1, feed, query)) =>
        findResult = Ok(FirstOfStage(1, feed, query))

\* C3: when stages 1-4 find nothing and the query has at least two tokens,
\* the result is the first release whose version contains token[0]
\* (case-sensitively) and whose channel equals token[1] ignoring case.
C3_ChannelQualifiedQuery ==
    (/\ FindReturned
     /\ \A m \in 1..4 : ~StageHasMatch(m, feed, query)
     /\ StageHasMatch(5, feed, query)) =>
        findResult = Ok(FirstOfStage(5, feed, query))

\* C4: when stages 1-5 find nothing, the catch-all stage decides: the first
\* release whose "{version} {channel} {build}" contains the query ignoring
\* case is returned, and the lookup fails only when there is none.
C4_CatchAllStage ==
    (FindReturned /\ \A m \in 1..5 : ~StageHasMatch(m, feed, query)) =>
        IF StageHasMatch(6, feed, query)
        THEN findResult = Ok(FirstOfStage(6, feed, query))
        ELSE findResult.tag = "Err"

\* C5: when no stage matches, the lookup fails with VersionNotFound and the
\* error carries the query exactly as the caller supplied it, with the hint
\* to run the listing command.
C5_NotFoundCarriesCallersQuery ==
    (FindReturned /\ \A m \in 1..6 : ~StageHasMatch(m, feed, query)) =>
        /\ findResult.tag = "Err"
        /\ findResult.kind = "VersionNotFound"
        /\ findResult.message[2] = query
        /\ findResult.message[3] = NotFoundHint


(***************************************************************************)
(* Status annotation of the list command: CommandHandler::print_version_info*)
(***************************************************************************)
\* AndroidStudioVersion::new
AndroidStudioVersion(sv, bv, pc, bn, pn) ==
    [short_version |-> sv, build_version |-> bv, product_code |-> pc,
     build_number |-> bn, product_name |-> pn]

\* InstalledAndroidStudio { path, version }
InstalledAndroidStudio(path, version) == [path |-> path, version |-> version]

\* The closure given to installed_studios.iter().any(...)
IsInstalledMutant(item, installed) ==
    \E i \in 1..Len(installed) :
        \/ installed[i].version.short_version = item.version
        \/ installed[i].version.build_version = item.build

IsInstalled(item, installed) ==
    \E i \in 1..Len(installed) :
        \/ installed[i].version.short_version = item.version
        \/ installed[i].version.build_version = item.build
        \/ installed[i].version.build_number = item.build

\* if let Some(active) = active_studio { ... } else { false }
IsSelected(item, active) ==
    IF active.some
    THEN \/ active.value.version.short_version = item.version
         \/ active.value.version.build_version = item.build
         \/ active.value.version.build_number = item.build
    ELSE FALSE

\* match (is_installed, is_selected)
StatusText(is_installed, is_selected) ==
    CASE is_installed /\ is_selected   -> " [Installed, Selected]"
      [] is_installed /\ ~is_selected  -> " [Installed]"
      [] ~is_installed /\ is_selected  -> " [Selected]"
      [] OTHER                         -> ""

MaxInstalled == 2

StatusStrings == {<<"1">>, <<"2">>}
StatusItems ==
    {[name |-> <<"K">>, build |-> b, version |-> v, channel |-> Release] :
        b \in StatusStrings, v \in StatusStrings}
StatusVersions ==
    {AndroidStudioVersion(sv, bv, <<"A","I">>, bn, <<"A","S">>) :
        sv \in StatusStrings, bv \in StatusStrings, bn \in StatusStrings}
StatusInstalled ==
    {InstalledAndroidStudio(<<"p">>, v) : v \in StatusVersions}

InitStatus ==
    /\ download = NoDownload
    /\ IdleFind
    /\ IdleDisk
    /\ listItem \in StatusItems
    /\ installedStudios \in SeqsUpTo(StatusInstalled, MaxInstalled)
    /\ activeStudio \in {None} \cup {Some(a) : a \in StatusInstalled}
    /\ status = NoResult

\* print_version_info(item, installed_studios, active_studio)
PrintVersionInfo ==
    /\ status = NoResult
    /\ status' = [tag |-> "Printed",
                  is_installed |-> IsInstalled(listItem, installedStudios),
                  is_selected |-> IsSelected(listItem, activeStudio),
                  text |-> StatusText(IsInstalled(listItem, installedStudios),
                                      IsSelected(listItem, activeStudio))]
    /\ UNCHANGED <<download, findVars, diskVars, listItem, installedStudios, activeStudio>>

NextStatus == PrintVersionInfo

SpecStatus == InitStatus /\ [][NextStatus]_vars

\* The three alternate-field equalities between a release and an installed version
EqShort(r, i) == r.version = i.short_version
EqBuildVersion(r, i) == r.build = i.build_version
EqBuildNumber(r, i) == r.build = i.build_number

\* C6: against one installed version the status is true exactly when one of
\* the three equalities holds: each alone suffices, and it is false only when
\* all three fail.  (The status against a list is the disjunction over it.)
C6_StatusIsAnyOfThreeEqualities ==
    status.tag = "Printed" =>
        /\ \A k \in 1..Len(installedStudios) :
             LET i == installedStudios[k].version
             IN  /\ EqShort(listItem, i) => status.is_installed
                 /\ EqBuildVersion(listItem, i) => status.is_installed
                 /\ EqBuildNumber(listItem, i) => status.is_installed
        /\ status.is_installed =>
             \E k \in 1..Len(installedStudios) :
                 LET i == installedStudios[k].version
                 IN  EqShort(listItem, i) \/ EqBuildVersion(listItem, i)
                        \/ EqBuildNumber(listItem, i)
        /\ activeStudio.some =>
             LET a == activeStudio.value.version
             IN  /\ EqShort(listItem, a) => status.is_selected
                 /\ EqBuildVersion(listItem, a) => status.is_selected
                 /\ EqBuildNumber(listItem, a) => status.is_selected
                 /\ status.is_selected =>
                        (EqShort(listItem, a) \/ EqBuildVersion(listItem, a)
                            \/ EqBuildNumber(listItem, a))
        /\ ~activeStudio.some => ~status.is_selected

\* C6 witness: a printed release whose only link to the single installed
\* version is build == build_number, reported as installed.
C6_Witness ==
    /\ status.tag = "Printed"
    /\ Len(installedStudios) = 1
    /\ ~EqShort(listItem, installedStudios[1].version)
    /\ ~EqBuildVersion(listItem, installedStudios[1].version)
    /\ EqBuildNumber(listItem, installedStudios[1].version)
    /\ status.is_installed


(***************************************************************************)
(* The file system: entries of a directory, bundles and their metadata     *)
(***************************************************************************)
\* A directory entry that is a real directory holding `bundle`
DirEntry(name, bundle) ==
    [name |-> name, kind |-> "dir", target |-> <<>>, bundle |-> bundle]

\* A directory entry that is a symlink to the entry named `target`
SymlinkEntry(name, target) ==
    [name |-> name, kind |-> "symlink", target |-> target, bundle |-> [plist |-> None, info |-> None]]

HasEntry(dir, name) == \E e \in dir : e.name = name
EntryOf(dir, name) == CHOOSE e \in dir : e.name = name

\* Path::is_symlink: does not follow the link
IsSymlink(dir, name) == HasEntry(dir, name) /\ EntryOf(dir, name).kind = "symlink"

\* Path::exists: follows symlinks, so a dangling symlink does not exist
PathExists(dir, name) ==
    /\ HasEntry(dir, name)
    /\ \/ EntryOf(dir, name).kind = "dir"
       \/ /\ EntryOf(dir, name).kind = "symlink"
          /\ HasEntry(dir, EntryOf(dir, name).target)
          /\ EntryOf(dir, EntryOf(dir, name).target).kind = "dir"

\* What opening files below `name` reaches: the bundle itself, or a symlink's target
ResolvedBundle(dir, name) ==
    IF EntryOf(dir, name).kind = "symlink"
    THEN EntryOf(dir, EntryOf(dir, name).target).bundle
    ELSE EntryOf(dir, name).bundle

\* Index of the last occurrence of character c in s, 0 if none
LastIndexOf(s, c) ==
    IF \E i \in 1..Len(s) : s[i] = c
    THEN CHOOSE i \in 1..Len(s) : s[i] = c /\ \A j \in (i + 1)..Len(s) : s[j] # c
    ELSE 0

\* Path::extension of a file name: the part after the last '.', none when there
\* is no '.' or the only '.' is the first character
Extension(name) ==
    IF LastIndexOf(name, ".") <= 1 THEN None
    ELSE Some(SubSeq(name, LastIndexOf(name, ".") + 1, Len(name)))

AppExt == <<"a","p","p">>
AndroidStudioId == <<"a","n","d","r","o","i","d",".","s","t","u","d","i","o">>
DefaultProductName == <<"A","n","d","r","o","i","d"," ","S","t","u","d","i","o">>
DefaultProductCode == <<"A","I">>

Err(msg) == [tag |-> "Err", message |-> msg]
OkValue(v) == [tag |-> "Ok", value |-> v]

(***************************************************************************)
(* InstalledAndroidStudio: reading a bundle's metadata (model.rs)          *)
(*                                                                         *)
(* Info.plist, as a value `plist`: None when the file cannot be opened,    *)
(* else Some of [parsed, dict, short, build, bundle_id], the last three    *)
(* Options (a key that is absent or not a string is None).                 *)
(* product-info.json, as a value `info`: None when it cannot be read, else *)
(* Some of [parsed, name, version, buildNumber].                           *)
(***************************************************************************)
\* A variant of parse_info_plist without the bundle identifier test
ParseInfoPlistAnyProduct(plist) ==
    IF ~plist.some THEN Err("Failed to open Info.plist")
    ELSE IF ~plist.value.parsed THEN Err("Failed to parse Info.plist")
    ELSE IF ~plist.value.dict THEN Err("Info.plist is not a dictionary")
    ELSE IF ~plist.value.short.some THEN Err("CFBundleShortVersionString not found")
    ELSE IF ~plist.value.build.some THEN Err("CFBundleVersion not found")
    ELSE OkValue(<<plist.value.short.value, plist.value.build.value>>)

\* parse_info_plist
ParseInfoPlist(plist) ==
    IF ~plist.some THEN Err("Failed to open Info.plist")
    ELSE IF ~plist.value.parsed THEN Err("Failed to parse Info.plist")
    ELSE IF ~plist.value.dict THEN Err("Info.plist is not a dictionary")
    ELSE IF ~plist.value.short.some THEN Err("CFBundleShortVersionString not found")
    ELSE IF ~plist.value.build.some THEN Err("CFBundleVersion not found")
    ELSE IF ~Contains(IF plist.value.bundle_id.some
                      THEN plist.value.bundle_id.value ELSE <<>>,
                      AndroidStudioId)
         THEN Err("Not an Android Studio application")
    ELSE OkValue(<<plist.value.short.value, plist.value.build.value>>)

\* str::split('-').next(): the part before the first separator, the whole
\* string when there is none; split always yields a first piece
SplitNext(s, sep) ==
    IF \E i \in 1..Len(s) : s[i] = sep
    THEN Some(SubSeq(s, 1, (CHOOSE i \in 1..Len(s) :
                                s[i] = sep /\ \A j \in 1..(i - 1) : s[j] # sep) - 1))
    ELSE Some(s)

UnwrapOr(opt, default) == IF opt.some THEN opt.value ELSE default

\* parse_product_info: <<product_name, product_code, build_number>>
ParseProductInfo(info) ==
    IF ~info.some THEN Err("Failed to read product-info.json")
    ELSE IF ~info.value.parsed THEN Err("Failed to parse product-info.json")
    ELSE IF ~info.value.version.some THEN Err("Version not found in product-info.json")
    ELSE OkValue(<<UnwrapOr(info.value.name, DefaultProductName),
                   UnwrapOr(SplitNext(info.value.version.value, "-"), DefaultProductCode),
                   UnwrapOr(info.value.buildNumber, info.value.version.value)>>)

\* A variant that falls back to defaults when product-info.json cannot be used
ParseVersionInfoLenient(bundle) ==
    LET p == ParseInfoPlist(bundle.plist)
        j == ParseProductInfo(bundle.info)
    IN  IF p.tag = "Err" THEN p
        ELSE IF j.tag = "Err"
             THEN OkValue(AndroidStudioVersion(p.value[1], p.value[2], DefaultProductCode,
                                               p.value[2], DefaultProductName))
        ELSE OkValue(AndroidStudioVersion(p.value[1], p.value[2], j.value[2],
                                          j.value[3], j.value[1]))

\* parse_version_info: Info.plist first, then product-info.json
ParseVersionInfo(bundle) ==
    LET p == ParseInfoPlist(bundle.plist)
        j == ParseProductInfo(bundle.info)
    IN  IF p.tag = "Err" THEN p
        ELSE IF j.tag = "Err" THEN j
        ELSE OkValue(AndroidStudioVersion(p.value[1], p.value[2], j.value[2],
                                          j.value[3], j.value[1]))

\* A variant that lets the parse error through to the caller
NewPropagatingErrors(dir, path) ==
    IF ~PathExists(dir, path) THEN OkValue(None)
    ELSE IF ~Extension(path).some \/ Extension(path).value # AppExt THEN OkValue(None)
    ELSE LET v == ParseVersionInfo(ResolvedBundle(dir, path))
         IN  IF v.tag = "Ok"
             THEN OkValue(Some(InstalledAndroidStudio(path, v.value)))
             ELSE v

\* InstalledAndroidStudio::new(path), the path looked up in directory `dir`
New(dir, path) ==
    IF ~PathExists(dir, path) THEN OkValue(None)
    ELSE IF ~Extension(path).some \/ Extension(path).value # AppExt THEN OkValue(None)
    ELSE LET v == ParseVersionInfo(ResolvedBundle(dir, path))
         IN  IF v.tag = "Ok"
             THEN OkValue(Some(InstalledAndroidStudio(path, v.value)))
             ELSE OkValue(None)


(***************************************************************************)
(* Reading one explicitly named path                                       *)
(***************************************************************************)
VersionedPrefix == <<"A","n","d","r","o","i","d"," ","S","t","u","d","i","o","-">>
DotApp == <<".","a","p","p">>
\* format!("Android Studio-{version}.app")
VersionedName(version) == VersionedPrefix \o version \o DotApp
\* "Android Studio.app"
AliasName == <<"A","n","d","r","o","i","d"," ","S","t","u","d","i","o">> \o DotApp

Unparsed == [parsed |-> FALSE, dict |-> FALSE, short |-> None, build |-> None,
             bundle_id |-> None]
NotADict == [parsed |-> TRUE, dict |-> FALSE, short |-> None, build |-> None,
             bundle_id |-> None]
GoogleId == <<"g",".">> \o AndroidStudioId
OtherId == <<"g",".","x">>

PlistFiles ==
    {None, Some(Unparsed), Some(NotADict)} \cup
    {Some([parsed |-> TRUE, dict |-> TRUE, short |-> sv, build |-> bv, bundle_id |-> id]) :
        sv \in {None, Some(<<"1">>)},
        bv \in {None, Some(<<"A","-","1">>)},
        id \in {None, Some(GoogleId), Some(OtherId)}}

InfoFiles ==
    {None, Some([parsed |-> FALSE, name |-> None, version |-> None, buildNumber |-> None])} \cup
    {Some([parsed |-> TRUE, name |-> n, version |-> v, buildNumber |-> bn]) :
        n \in {None, Some(<<"S">>)},
        v \in {None, Some(<<"A","-","1">>), Some(<<"1">>)},
        bn \in {None, Some(<<"7">>)}}

ReaderPaths == {VersionedName(<<"1">>), <<"x",".","t","x","t">>, <<"x">>}

InitReader ==
    /\ download = NoDownload
    /\ IdleFind
    /\ IdleStatus
    /\ appsDir \in {{}} \cup
          {{DirEntry(n, [plist |-> pl, info |-> inf])} :
              n \in ReaderPaths, pl \in PlistFiles, inf \in InfoFiles}
    /\ versionsDir = {}
    /\ opResult = NoOp

\* InstalledAndroidStudio::new(path) on a path the caller names
ReadBundle(path) ==
    /\ opResult = NoOp
    /\ opResult' = [op |-> "new", path |-> path, result |-> New(appsDir, path)]
    /\ UNCHANGED <<download, findVars, statusVars, appsDir, versionsDir>>

NextReader == \E path \in ReaderPaths : ReadBundle(path)

SpecReader == InitReader /\ [][NextReader]_vars

\* Info.plist or product-info.json missing, unreadable, malformed or lacking a
\* required field
BadMetadata(bundle) ==
    \/ ~bundle.plist.some
    \/ ~bundle.plist.value.parsed
    \/ ~bundle.plist.value.dict
    \/ ~bundle.plist.value.short.some
    \/ ~bundle.plist.value.build.some
    \/ ~bundle.info.some
    \/ ~bundle.info.value.parsed
    \/ ~bundle.info.value.version.some

ReadOfBadBundle ==
    /\ opResult.op = "new"
    /\ PathExists(appsDir, opResult.path)
    /\ Extension(opResult.path) = Some(AppExt)
    /\ BadMetadata(ResolvedBundle(appsDir, opResult.path))

AsciiOrder == <<" ", "-", ".", "0","1","2","3","4","5","6","7","8","9",
                "A","B","C","D","E","F","G","H","I","J","K","L","M",
                "N","O","P","Q","R","S","T","U","V","W","X","Y","Z",
                "a","b","c","d","e","f","g","h","i","j","k","l","m",
                "n","o","p","q","r","s","t","u","v","w","x","y","z">>
CharCode(c) == CHOOSE i \in 1..Len(AsciiOrder) : AsciiOrder[i] = c

\* impl Ord for str: lexicographic by bytes, a proper prefix is smaller
CmpStr(a, b) ==
    LET n == IF Len(a) < Len(b) THEN Len(a) ELSE Len(b)
        d == IF \E i \in 1..n : a[i] # b[i]
             THEN CHOOSE i \in 1..n : a[i] # b[i] /\ \A j \in 1..(i - 1) : a[j] = b[j]
             ELSE 0
    IN  IF d # 0
        THEN IF CharCode(a[d]) < CharCode(b[d]) THEN "Less" ELSE "Greater"
        ELSE IF Len(a) < Len(b) THEN "Less"
        ELSE IF Len(a) > Len(b) THEN "Greater"
        ELSE "Equal"

\* Ordering::then
Then(first, second) == IF first # "Equal" THEN first ELSE second

\* #[derive(PartialOrd, Ord)] on AndroidStudioVersion: field by field, in
\* declaration order
CmpVersion(v, w) ==
    Then(CmpStr(v.short_version, w.short_version),
    Then(CmpStr(v.build_version, w.build_version),
    Then(CmpStr(v.product_code, w.product_code),
    Then(CmpStr(v.build_number, w.build_number),
         CmpStr(v.product_name, w.product_name)))))

\* impl Ord for InstalledAndroidStudio: self.version.cmp(&other.version)
CmpInstalled(a, b) == CmpVersion(a.version, b.version)

(***************************************************************************)
(* Scanning the applications directory for installations.                  *)
(* Installer::list_installed_studios is called by commands.rs but is not   *)
(* among the sources; it is modelled from the specification (section 4.4): *)
(* skip symlinks, run the reader on each entry, discard negative results   *)
(* and read errors, sort descending by the installation ordering.          *)
(***************************************************************************)
\* The installations the reader accepts among the non-symlink entries
ScanFound(dir) ==
    {New(dir, e.name).value.value :
        e \in {x \in dir : /\ x.kind # "symlink"
                           /\ New(dir, x.name).tag = "Ok"
                           /\ New(dir, x.name).value.some}}

\* All arrangements of the set S as a sequence without repetition
Arrangements(S) ==
    {f \in [1..Cardinality(S) -> S] : \A i, j \in 1..Cardinality(S) : i # j => f[i] # f[j]}

SortedDescending(list) ==
    \A i \in 1..(Len(list) - 1) : CmpInstalled(list[i], list[i + 1]) # "Less"

\* The listings list_installed_studios may return: read_dir yields the
\* entries in any order and the sort leaves equal elements in that order
ListInstalledStudios(dir) ==
    {list \in Arrangements(ScanFound(dir)) : SortedDescending(list)}

GoodPlist(sv, bv) ==
    Some([parsed |-> TRUE, dict |-> TRUE, short |-> Some(sv), build |-> Some(bv),
          bundle_id |-> Some(GoogleId)])
GoodInfo(v) ==
    Some([parsed |-> TRUE, name |-> Some(<<"S">>), version |-> Some(v), buildNumber |-> None])

\* Bundles found in the scanned directory: two sound ones, one without
\* Info.plist, one with a malformed product-info.json, one of another product
ScanBundles ==
    {[plist |-> GoodPlist(<<"1">>, <<"A","-","1">>), info |-> GoodInfo(<<"A","-","1">>)],
     [plist |-> GoodPlist(<<"2">>, <<"A","-","2">>), info |-> GoodInfo(<<"A","-","2">>)],
     [plist |-> None, info |-> GoodInfo(<<"A","-","1">>)],
     [plist |-> GoodPlist(<<"1">>, <<"A","-","1">>),
      info |-> Some([parsed |-> FALSE, name |-> None, version |-> None, buildNumber |-> None])],
     [plist |-> Some([parsed |-> TRUE, dict |-> TRUE, short |-> Some(<<"1">>),
                      build |-> Some(<<"A","-","1">>), bundle_id |-> Some(OtherId)]),
      info |-> GoodInfo(<<"A","-","1">>)]}

ScanNames == {VersionedName(<<"1">>), VersionedName(<<"2">>), <<"x">> \o DotApp}

\* One optional bundle per name, and optionally the alias pointing at a name
ScanDirs ==
    {{DirEntry(n, pick[n].value) : n \in {m \in ScanNames : pick[m].some}} \cup alias :
        pick \in [ScanNames -> {None} \cup {Some(b) : b \in ScanBundles}],
        alias \in {{}} \cup {{SymlinkEntry(AliasName, t)} : t \in ScanNames}}

InitScan ==
    /\ download = NoDownload
    /\ IdleFind
    /\ IdleStatus
    /\ appsDir \in ScanDirs
    /\ versionsDir = {}
    /\ opResult = NoOp

\* list_installed_studios()
ScanInstalled ==
    /\ opResult = NoOp
    /\ \E list \in ListInstalledStudios(appsDir) :
           opResult' = [op |-> "list_installed_studios", result |-> OkValue(list)]
    /\ UNCHANGED <<download, findVars, statusVars, appsDir, versionsDir>>

NextScan == ScanInstalled

SpecScan == InitScan /\ [][NextScan]_vars

\* A candidate of the scan (a real entry with the bundle extension) whose
\* metadata cannot be read or parsed
BadCandidate(e) ==
    e.kind = "dir" /\ Extension(e.name) = Some(AppExt) /\ BadMetadata(e.bundle)

\* A sound installation: both files parse, the required fields are there and
\* the bundle identifier names the product
SoundCandidate(e) ==
    /\ e.kind = "dir" /\ Extension(e.name) = Some(AppExt) /\ ~BadMetadata(e.bundle)
    /\ e.bundle.plist.value.bundle_id.some
    /\ Contains(e.bundle.plist.value.bundle_id.value, AndroidStudioId)

Scanned == opResult.op = "list_installed_studios"

StartsWith(s, p) == Len(p) <= Len(s) /\ SubSeq(s, 1, Len(p)) = p
EndsWith(s, p) == Len(p) <= Len(s) /\ SubSeq(s, Len(s) - Len(p) + 1, Len(s)) = p

\* str::strip_prefix / str::strip_suffix
StripPrefix(s, p) == IF StartsWith(s, p) THEN Some(SubSeq(s, Len(p) + 1, Len(s))) ELSE None
StripSuffix(s, p) == IF EndsWith(s, p) THEN Some(SubSeq(s, 1, Len(s) - Len(p))) ELSE None

\* fs::remove_file / fs::remove_dir_all of one entry of the directory
RemoveEntry(dir, name) == {e \in dir : e.name # name}

\* format!(...).into(): an error that is only a message
StringError(parts) == [tag |-> "Err", kind |-> "Message", message |-> parts]
NotInstalled(version) == StringError(<<"Android Studio ", version, " is not installed">>)
\* The `?` on std::os::unix::fs::symlink when the link path is taken
AlreadyExists == [tag |-> "Err", kind |-> "Io", message |-> <<"File exists">>]
Done == [tag |-> "Ok"]

\* is_version_active: the alias exists, is a symlink, and its target's file
\* name is that of the version
IsVersionActive(dir, version) ==
    /\ PathExists(dir, AliasName)
    /\ IsSymlink(dir, AliasName)
    /\ EntryOf(dir, AliasName).target = VersionedName(version)

\* uninstall_version: <<result, applications directory, versions directory>>
UninstallVersion(dir, vdir, version) ==
    LET versioned_path == VersionedName(version)
        installed_in_apps == PathExists(dir, versioned_path)
        installed_in_versions == version \in vdir
        afterAlias == IF IsVersionActive(dir, version) /\ PathExists(dir, AliasName)
                      THEN RemoveEntry(dir, AliasName) ELSE dir
        afterApps == IF installed_in_apps THEN RemoveEntry(afterAlias, versioned_path)
                     ELSE afterAlias
        afterVersions == IF installed_in_versions THEN vdir \ {version} ELSE vdir
    IN  IF ~installed_in_apps /\ ~installed_in_versions
        THEN <<NotInstalled(version), dir, vdir>>
        ELSE <<Done, afterApps, afterVersions>>

\* switch_to_version: <<result, applications directory>>
SwitchToVersion(dir, version) ==
    LET versioned_path == VersionedName(version)
        cleared == IF PathExists(dir, AliasName) THEN RemoveEntry(dir, AliasName) ELSE dir
    IN  IF ~PathExists(dir, versioned_path) THEN <<NotInstalled(version), dir>>
        ELSE IF HasEntry(cleared, AliasName) THEN <<AlreadyExists, cleared>>
        ELSE <<Done, cleared \cup {SymlinkEntry(AliasName, versioned_path)}>>

\* The versions named by the entries "Android Studio-<version>.app"
NamedVersions(dir) ==
    {StripSuffix(StripPrefix(e.name, VersionedPrefix).value, DotApp).value :
        e \in {x \in dir : StartsWith(x.name, VersionedPrefix) /\ EndsWith(x.name, DotApp)
                           /\ StripSuffix(StripPrefix(x.name, VersionedPrefix).value, DotApp).some}}

\* Vec<String>::sort of distinct strings
SortStrings(S) ==
    CHOOSE f \in [1..Cardinality(S) -> S] :
        \A i \in 1..(Cardinality(S) - 1) : CmpStr(f[i], f[i + 1]) = "Less"

\* list_installed_versions: the lines printed, in order
ListInstalledVersions(dir) ==
    LET versions == SortStrings(NamedVersions(dir))
    IN  [i \in 1..Len(versions) |->
            [version |-> versions[i], is_active |-> IsVersionActive(dir, versions[i])]]


\* Versions the catalog names, used as bundle names and as identifiers
FsVersions == {<<"1">>, <<"1",".","2">>}

\* Bundles on disk: two builds of the same short version, and one without
\* Info.plist
FsBundles ==
    {[plist |-> GoodPlist(<<"1">>, <<"A","-","1">>), info |-> GoodInfo(<<"A","-","1">>)],
     [plist |-> GoodPlist(<<"1">>, <<"A","-","2">>), info |-> GoodInfo(<<"A","-","2">>)],
     [plist |-> None, info |-> GoodInfo(<<"A","-","1">>)]}

\* One optional bundle per versioned name; the alias absent, a symlink to a
\* versioned name, or a bundle copied there by hand
FsDirs ==
    {{DirEntry(VersionedName(v), pick[v].value) : v \in {w \in FsVersions : pick[w].some}}
        \cup alias :
        pick \in [FsVersions -> {None} \cup {Some(b) : b \in FsBundles}],
        alias \in {{}} \cup {{SymlinkEntry(AliasName, VersionedName(t))} : t \in FsVersions}
                       \cup {{DirEntry(AliasName, b)} : b \in FsBundles}}

InitFs ==
    /\ download = NoDownload
    /\ IdleFind
    /\ IdleStatus
    /\ appsDir \in FsDirs
    /\ versionsDir \in SUBSET FsVersions
    /\ opResult = NoOp

\* `uninstall <version>`
Uninstall(version) ==
    LET r == UninstallVersion(appsDir, versionsDir, version)
    IN  /\ opResult' = [op |-> "uninstall", version |-> version, result |-> r[1]]
        /\ appsDir' = r[2]
        /\ versionsDir' = r[3]
        /\ UNCHANGED <<download, findVars, statusVars>>

\* `use <version>`
Switch(version) ==
    LET r == SwitchToVersion(appsDir, version)
    IN  /\ opResult' = [op |-> "switch", version |-> version, result |-> r[1]]
        /\ appsDir' = r[2]
        /\ UNCHANGED <<download, findVars, statusVars, versionsDir>>

\* list_installed_versions()
ListInstalled ==
    /\ opResult' = [op |-> "list", result |-> OkValue(ListInstalledVersions(appsDir))]
    /\ UNCHANGED <<download, findVars, statusVars, appsDir, versionsDir>>

NextFs ==
    \/ \E version \in FsVersions : Uninstall(version)
    \/ \E version \in FsVersions : Switch(version)
    \/ ListInstalled

SpecFs == InitFs /\ [][NextFs]_vars

\* The installations in the applications directory whose short_version is the
\* identifier: each of them matches it
MatchingInstallations(dir, identifier) ==
    {i \in ScanFound(dir) : i.version.short_version = identifier}

IsAmbiguous(dir, identifier) == Cardinality(MatchingInstallations(dir, identifier)) > 1

\* C7: an uninstall or switch whose identifier matches more than one installed
\* entry fails with an ambiguous-match error listing every matching candidate,
\* removes nothing and changes no symlink.
C7_AmbiguousMatchFailsClosed ==
    [][\A id \in FsVersions :
          (/\ IsAmbiguous(appsDir, id)
           /\ opResult'.op \in {"uninstall", "switch"}
           /\ opResult'.version = id)
          => /\ opResult'.result.tag = "Err"
             /\ opResult'.result.kind = "AmbiguousMatch"
             /\ opResult'.result.candidates = MatchingInstallations(appsDir, id)
             /\ appsDir' = appsDir
             /\ versionsDir' = versionsDir]_vars

Listed == opResult.op = "list"

\* C10: the listing names each valid installation of the applications
\* directory exactly once, names no symlink, and is in descending order of the
\* installed-version ordering (newest first).
C10_ListIsValidOnceNewestFirst ==
    Listed =>
        LET list == opResult.result.value
            name(i) == VersionedName(list[i].version)
            sound == {e \in appsDir : SoundCandidate(e)}
        IN  /\ {name(i) : i \in 1..Len(list)} = {e.name : e \in sound}
            /\ Len(list) = Cardinality(sound)
            /\ \A i \in 1..Len(list) : ~IsSymlink(appsDir, name(i))
            /\ \A i \in 1..(Len(list) - 1) :
                   CmpInstalled(New(appsDir, name(i)).value.value,
                                New(appsDir, name(i + 1)).value.value) # "Less"


(***************************************************************************)
(* Comparing two installations (model.rs: impl Ord)                        *)
(***************************************************************************)
OrdShortVersions == {<<"1",".","9">>, <<"1",".","1","0">>}
OrdBuildVersions == {<<"A","-","9">>, <<"A","-","1","0">>, <<"A","-","9",".","1">>}
OrdNames == {<<"S">>, <<"T">>}

\* Where a bundle can lie: under its versioned name, or under another name
OrdPaths == {VersionedName(<<"1",".","9">>), <<"x">> \o DotApp}

\* Installations as the reader builds them: product_code "A", build_number
\* the build version (no buildNumber key)
OrdInstalled ==
    {InstalledAndroidStudio(path, AndroidStudioVersion(sv, bv, <<"A">>, bv, pn)) :
        path \in OrdPaths, sv \in OrdShortVersions, bv \in OrdBuildVersions,
        pn \in OrdNames}

InitOrd ==
    /\ download = NoDownload
    /\ IdleFind
    /\ listItem = [version |-> <<>>, channel |-> <<>>, name |-> <<>>, build |-> <<>>]
    /\ installedStudios \in {<<a, b>> : a \in OrdInstalled, b \in OrdInstalled}
    /\ activeStudio = None
    /\ status = NoResult
    /\ IdleDisk

\* installedStudios[1].cmp(&installedStudios[2])
Compare ==
    /\ opResult = NoOp
    /\ opResult' = [op |-> "cmp",
                    result |-> CmpInstalled(installedStudios[1], installedStudios[2])]
    /\ UNCHANGED <<download, findVars, statusVars, appsDir, versionsDir>>

NextOrd == Compare

SpecOrd == InitOrd /\ [][NextOrd]_vars

\* The ordering as stated: build_version split at '.' and '-', segments that
\* are numbers compared as numbers
IsDigit(c) == c \in {"0","1","2","3","4","5","6","7","8","9"}
DigitValue(c) == CharCode(c) - CharCode("0")
RECURSIVE NumberOf(_)
NumberOf(digits) ==
    IF digits = <<>> THEN 0
    ELSE 10 * NumberOf(SubSeq(digits, 1, Len(digits) - 1)) + DigitValue(digits[Len(digits)])
IsNumber(seg) == seg # <<>> /\ \A i \in 1..Len(seg) : IsDigit(seg[i])

RECURSIVE SegmentsFrom(_, _, _, _)
SegmentsFrom(s, i, cur, acc) ==
    IF i > Len(s) THEN Append(acc, cur)
    ELSE IF s[i] \in {".", "-"} THEN SegmentsFrom(s, i + 1, <<>>, Append(acc, cur))
    ELSE SegmentsFrom(s, i + 1, Append(cur, s[i]), acc)
Segments(s) == SegmentsFrom(s, 1, <<>>, <<>>)

CmpSegment(x, y) ==
    IF IsNumber(x) /\ IsNumber(y)
    THEN IF NumberOf(x) < NumberOf(y) THEN "Less"
         ELSE IF NumberOf(x) > NumberOf(y) THEN "Greater" ELSE "Equal"
    ELSE CmpStr(x, y)

StatedCmp(a, b) ==
    LET x == Segments(a)
        y == Segments(b)
        n == IF Len(x) < Len(y) THEN Len(x) ELSE Len(y)
        d == IF \E i \in 1..n : CmpSegment(x[i], y[i]) # "Equal"
             THEN CHOOSE i \in 1..n : /\ CmpSegment(x[i], y[i]) # "Equal"
                                      /\ \A j \in 1..(i - 1) : CmpSegment(x[j], y[j]) = "Equal"
             ELSE 0
    IN  IF d # 0 THEN CmpSegment(x[d], y[d])
        ELSE IF Len(x) < Len(y) THEN "Less"
        ELSE IF Len(x) > Len(y) THEN "Greater"
        ELSE "Equal"

Compared == opResult.op = "cmp"

\* C11: two installations whose build_version differs compare as their
\* build_versions do segment by segment, numeric segments as numbers: the one
\* whose differing segment is 10 is greater than the one whose segment is 9.
C11_BuildVersionComparedNumerically ==
    Compared =>
        LET a == installedStudios[1].version
            b == installedStudios[2].version
        IN  StatedCmp(a.build_version, b.build_version) # "Equal"
                => opResult.result = StatedCmp(a.build_version, b.build_version)


(***************************************************************************)
(* The active installation.  Installer::get_active_studio is called by     *)
(* commands.rs (handle_which, handle_list, handle_installed) but is not    *)
(* among the sources; it is modelled from the specification (section 4.4): *)
(* read the alias symlink and run the reader on its target.  The symlink   *)
(* test is the one of Installer::is_version_active.                        *)
(***************************************************************************)
GetActiveStudio(dir) ==
    IF PathExists(dir, AliasName) /\ IsSymlink(dir, AliasName)
    THEN New(dir, EntryOf(dir, AliasName).target)
    ELSE OkValue(None)

InitActive ==
    /\ download = NoDownload
    /\ IdleFind
    /\ IdleStatus
    /\ appsDir \in FsDirs
    /\ versionsDir = {}
    /\ opResult = NoOp

\* handle_which: get_active_studio()? and the report of its result
Which ==
    /\ opResult = NoOp
    /\ opResult' = [op |-> "which", result |-> GetActiveStudio(appsDir)]
    /\ UNCHANGED <<download, findVars, statusVars, appsDir, versionsDir>>

NextActive == Which

SpecActive == InitActive /\ [][NextActive]_vars

\* The alias is a symlink whose target is an existing bundle
AliasResolves(dir) ==
    /\ HasEntry(dir, AliasName)
    /\ EntryOf(dir, AliasName).kind = "symlink"
    /\ \E e \in dir : e.name = EntryOf(dir, AliasName).target /\ e.kind = "dir"

AliasTarget(dir) == CHOOSE e \in dir : e.name = EntryOf(dir, AliasName).target

AskedWhich == opResult.op = "which"

Beta == <<"B","e","t","a">>
RC == <<"R","C">>
Patch == <<"P","a","t","c","h">>

\* AndroidStudio::is_release / is_beta / is_canary
IsRelease(item) == item.channel = Release
IsBeta(item) == item.channel = Beta
IsCanary(item) == item.channel = Canary
IsRc(item) == item.channel = RC
IsPatch(item) == item.channel = Patch

\* AndroidStudio::channel_type: the match on the channel string
ChannelType(item) ==
    CASE item.channel = Release -> "Release"
      [] item.channel = Beta -> "Beta"
      [] item.channel = Canary -> "Canary"
      [] item.channel = RC -> "ReleaseCandidate"
      [] item.channel = Patch -> "Patch"
      [] OTHER -> "Release"

\* Variants of filter_by_channel: any set flag suffices; a build is kept once
FilterByChannelAnyFlag(items, release_only, beta_only, canary_only) ==
    LET Keep(item) == \/ ~(release_only \/ beta_only \/ canary_only)
                      \/ release_only /\ IsRelease(item)
                      \/ beta_only /\ IsBeta(item)
                      \/ canary_only /\ IsCanary(item)
    IN  SelectSeq(items, Keep)

FilterByChannelOnePerBuild(items, release_only, beta_only, canary_only) ==
    LET a == IF release_only THEN SelectSeq(items, IsRelease) ELSE items
        b == IF beta_only THEN SelectSeq(a, IsBeta) ELSE a
        c == IF canary_only THEN SelectSeq(b, IsCanary) ELSE b
        firsts == {i \in 1..Len(c) : \A j \in 1..(i - 1) : c[j].build # c[i].build}
        Nth(k) == CHOOSE i \in firsts : Cardinality({j \in firsts : j < i}) = k - 1
    IN  [k \in 1..Cardinality(firsts) |-> c[Nth(k)]]

\* filter_by_channel: one retain per set flag, in this order
FilterByChannel(items, release_only, beta_only, canary_only) ==
    LET a == IF release_only THEN SelectSeq(items, IsRelease) ELSE items
        b == IF beta_only THEN SelectSeq(a, IsBeta) ELSE a
        c == IF canary_only THEN SelectSeq(b, IsCanary) ELSE b
    IN  c

NoReleaseVersions ==
    [tag |-> "Err", kind |-> "VersionNotFound",
     message |-> <<"No release versions available">>]

\* A variant of get_latest_release that takes the head of the catalog
GetLatestReleaseHead(items) ==
    IF items # <<>> THEN Ok(items[1]) ELSE NoReleaseVersions

\* get_latest_release on the items get_releases returned
GetLatestRelease(items) ==
    LET hit == FirstTrue([i \in 1..Len(items) |-> IsRelease(items[i])])
    IN  IF hit # 0 THEN Ok(items[hit]) ELSE NoReleaseVersions

MaxFilterCatalog == 3

\* A channel string outside the five the program knows
Unknown == <<"U","n","k","n","o","w","n">>

\* Two versions per channel and one build for all, so that builds repeat
ChannelReleases ==
    {[name |-> <<"K">>, build |-> <<"A">>, version |-> v, channel |-> c] :
        v \in {<<"1">>, <<"2">>}, c \in {Release, Beta, Canary, RC, Patch, Unknown}}

ChannelCatalogs == SeqsUpTo(ChannelReleases, MaxFilterCatalog)

InitCatalog ==
    /\ download = NoDownload
    /\ feed \in ChannelCatalogs
    /\ cacheFile = NoFile
    /\ query = <<>>
    /\ findResult = NoResult
    /\ IdleStatus
    /\ IdleDisk

\* handle_list: get_releases, then filter_by_channel with the three flags
ListFiltered(release_only, beta_only, canary_only) ==
    LET got == GetReleases(cacheFile, feed)
    IN  /\ findResult = NoResult
        /\ cacheFile' = got.file
        /\ findResult' = [tag |-> "Filtered",
                          flags |-> <<release_only, beta_only, canary_only>>,
                          items |-> FilterByChannel(got.items, release_only,
                                                    beta_only, canary_only)]
        /\ UNCHANGED <<download, feed, query, statusVars, diskVars>>

\* get_latest_release: get_releases, then the first Release entry
LatestRelease ==
    LET got == GetReleases(cacheFile, feed)
    IN  /\ findResult = NoResult
        /\ cacheFile' = got.file
        /\ findResult' = [tag |-> "Latest", result |-> GetLatestRelease(got.items)]
        /\ UNCHANGED <<download, feed, query, statusVars, diskVars>>

NextCatalog ==
    \/ \E r, b, c \in BOOLEAN : ListFiltered(r, b, c)
    \/ LatestRelease

SpecCatalog == InitCatalog /\ [][NextCatalog]_vars

Filtered == findResult.tag = "Filtered"

\* A release satisfies every flag that is set
SatisfiesEveryFlag(item, flags) ==
    /\ flags[1] => item.channel = Release
    /\ flags[2] => item.channel = Beta
    /\ flags[3] => item.channel = Canary

FlagsSet(flags) == Cardinality({i \in 1..3 : flags[i]})

\* C13: the result of filter_by_channel holds exactly the releases that
\* satisfy every set flag, and it is empty when two or more flags are set.
C13_FlagsComposeAsAnd ==
    Filtered =>
        /\ \A item \in ChannelReleases :
               (\E i \in 1..Len(findResult.items) : findResult.items[i] = item)
                   <=> /\ \E j \in 1..Len(feed) : feed[j] = item
                       /\ SatisfiesEveryFlag(item, findResult.flags)
        /\ FlagsSet(findResult.flags) >= 2 => findResult.items = <<>>

\* C13 witness: release_only and beta_only on a catalog holding a Release and
\* a Beta entry gave the empty list.
C13_Witness ==
    /\ Filtered
    /\ findResult.flags = <<TRUE, TRUE, FALSE>>
    /\ \E i, j \in 1..Len(feed) : feed[i].channel = Release /\ feed[j].channel = Beta
    /\ findResult.items = <<>>

AskedLatest == findResult.tag = "Latest"

\* C14: get_latest_release returns the first entry in feed order whose channel
\* is Release, whatever precedes it, and fails with VersionNotFound when the
\* catalog has no Release entry.
C14_LatestIsFirstReleaseEntry ==
    AskedLatest =>
        IF \E i \in 1..Len(feed) : feed[i].channel = Release
        THEN LET first == CHOOSE i \in 1..Len(feed) :
                              /\ feed[i].channel = Release
                              /\ \A j \in 1..(i - 1) : feed[j].channel # Release
             IN  findResult.result = Ok(feed[first])
        ELSE /\ findResult.result.tag = "Err"
             /\ findResult.result.kind = "VersionNotFound"

\* C14 witness: a Canary and an RC entry precede the Release entry that is
\* returned.
C14_Witness ==
    /\ AskedLatest
    /\ Len(feed) = 3
    /\ feed[1].channel = Canary /\ feed[2].channel = RC /\ feed[3].channel = Release
    /\ findResult.result = Ok(feed[3])

\* C20: for every flag combination the result is a subsequence of the catalog
\* in feed order; every catalog entry with the channel of a kept entry is
\* kept, however many of them share a build (nothing is dropped as a
\* repetition); and the result is the whole catalog when no flag is set.
C20_FilterKeepsFeedOrderAndRepeats ==
    Filtered =>
        LET out == findResult.items
        IN  /\ \E f \in [1..Len(out) -> 1..Len(feed)] :
                   /\ \A i \in 1..Len(out) : out[i] = feed[f[i]]
                   /\ \A i \in 1..(Len(out) - 1) : f[i] < f[i + 1]
            /\ \A i \in 1..Len(feed) :
                   (\E k \in 1..Len(out) : out[k] = feed[i])
                       => Cardinality({k \in 1..Len(out) : out[k].channel = feed[i].channel})
                              = Cardinality({j \in 1..Len(feed) :
                                                feed[j].channel = feed[i].channel})
            /\ FlagsSet(findResult.flags) = 0 => out = feed

\* C20 witness: three Release entries of one build, a flag set, all three kept
\* in feed order.
C20_Witness ==
    /\ Filtered
    /\ findResult.flags = <<TRUE, FALSE, FALSE>>
    /\ Len(feed) = 3
    /\ \A i \in 1..3 : feed[i].channel = Release /\ feed[i].build = feed[1].build
    /\ feed[1] # feed[2]
    /\ findResult.items = feed


(***************************************************************************)
(* The release cache over time: get_releases, the update command           *)
(***************************************************************************)
MaxCacheCatalog == 2

CacheReleases ==
    {[name |-> <<"K">>, build |-> <<"A">>, version |-> v, channel |-> Release] :
        v \in {<<"1">>, <<"2">>}}

CacheCatalogs == SeqsUpTo(CacheReleases, MaxCacheCatalog)

\* Ages of the cache file, in seconds, around the duration
CacheAges == {0, CACHE_DURATION_SECS - 1, CACHE_DURATION_SECS, CACHE_DURATION_SECS + 1}

\* A first run: no cache file yet
InitCache ==
    /\ download = NoDownload
    /\ feed \in CacheCatalogs
    /\ cacheFile = NoFile
    /\ query = <<>>
    /\ findResult = NoResult
    /\ IdleStatus
    /\ IdleDisk

\* A command that calls get_releases and reports the catalog
Releases(op) ==
    LET got == GetReleases(cacheFile, feed)
    IN  /\ cacheFile' = got.file
        /\ findResult' = [tag |-> "Releases", op |-> op, items |-> got.items,
                          fetched |-> ~LoadCachedReleases(cacheFile).some]
        /\ UNCHANGED <<download, feed, query, statusVars, diskVars>>

\* get_releases() on behalf of the list command
ListReleases == Releases("list")

\* handle_update: get_releases(), then the report
Update == Releases("update")

\* Time passes between two runs: the cache file grows older
Tick ==
    /\ cacheFile.exists
    /\ \E age \in CacheAges :
           /\ age > cacheFile.age
           /\ cacheFile' = CacheFile(age, cacheFile.items)
    /\ findResult' = NoResult
    /\ UNCHANGED <<download, feed, query, statusVars, diskVars>>

\* The vendor publishes another feed between two runs
Publish ==
    /\ \E next \in CacheCatalogs : next # feed /\ feed' = next
    /\ findResult' = NoResult
    /\ UNCHANGED <<download, cacheFile, query, statusVars, diskVars>>

NextCache ==
    \/ ListReleases
    \/ Update
    \/ Tick
    \/ Publish

SpecCache == InitCache /\ [][NextCache]_vars

C17_UpdateForcesRefresh ==
    (findResult.tag = "Releases" /\ findResult.op = "update") =>
        /\ findResult.fetched
        /\ findResult.items = feed
        /\ cacheFile = CacheFile(0, feed)


(***************************************************************************)
(* Downloader::download_with_aria2 (downloader.rs): the aria2 child, the   *)
(* progress-monitoring thread and the caller.  Sizes are counted in        *)
(* blocks; file_size 0 means the HEAD request gave no content-length.      *)
(***************************************************************************)
MaxBlocks == 3

\* After cmd.spawn() and thread::spawn: the caller is in child.wait()
Spawned(file_size, served) ==
    [pc |-> "wait", child |-> "running", monitor |-> "running",
     file_size |-> file_size, served |-> served,
     dest |-> None, last_size |-> 0, shown |-> 0, result |-> NoResult]

InitAria ==
    /\ IdleFind
    /\ IdleStatus
    /\ IdleDisk
    /\ download \in {Spawned(f, n) : f \in 0..MaxBlocks, n \in 1..MaxBlocks}

DestLen == IF download.dest.some THEN download.dest.value ELSE 0

\* aria2 writes the next block of the destination file
ChildWrites ==
    /\ download.pc # "idle"
    /\ download.child = "running"
    /\ DestLen < download.served
    /\ download' = [download EXCEPT !.dest = Some(DestLen + 1)]
    /\ UNCHANGED <<findVars, statusVars, diskVars>>

\* aria2 exits: with success once everything is written, with failure at any time
ChildExits ==
    /\ download.pc # "idle"
    /\ download.child = "running"
    /\ \E exit \in {"success", "failure"} :
           /\ exit = "success" => DestLen = download.served
           /\ download' = [download EXCEPT !.child = exit]
    /\ UNCHANGED <<findVars, statusVars, diskVars>>

\* One round of the monitoring thread's loop, after its sleep: report the
\* size of the destination file, break when it has reached file_size
MonitorPolls ==
    /\ download.pc # "idle"
    /\ download.monitor = "running"
    /\ IF download.dest.some
       THEN download' = [download EXCEPT
                !.shown = IF download.file_size > 0 \/ DestLen > download.last_size
                          THEN DestLen ELSE @,
                !.last_size = DestLen,
                !.monitor = IF download.file_size > 0 /\ DestLen >= download.file_size
                            THEN "done" ELSE @]
       ELSE UNCHANGED download
    /\ UNCHANGED <<findVars, statusVars, diskVars>>

\* child.wait() returns
WaitReturns ==
    /\ download.pc = "wait"
    /\ download.child # "running"
    /\ download' = [download EXCEPT !.pc = "join"]
    /\ UNCHANGED <<findVars, statusVars, diskVars>>

\* handle.join() returns; the final progress update; the result by exit status
JoinReturns ==
    /\ download.pc = "join"
    /\ download.monitor = "done"
    /\ download' = [download EXCEPT
            !.pc = "returned",
            !.shown = IF download.dest.some /\ download.file_size > 0
                      THEN (IF DestLen < download.file_size THEN DestLen
                            ELSE download.file_size)
                      ELSE @,
            !.result = IF download.child = "success" THEN [tag |-> "Ok"]
                       ELSE [tag |-> "Err", kind |-> "Message",
                             message |-> <<"aria2 download failed: ">>]]
    /\ UNCHANGED <<findVars, statusVars, diskVars>>

NextAria ==
    \/ ChildWrites
    \/ ChildExits
    \/ MonitorPolls
    \/ WaitReturns
    \/ JoinReturns

SpecAria == InitAria /\ [][NextAria]_vars

\* The child runs and both threads are scheduled
SpecAriaFair ==
    /\ SpecAria
    /\ WF_vars(ChildWrites)
    /\ WF_vars(ChildExits)
    /\ WF_vars(MonitorPolls)
    /\ WF_vars(WaitReturns)
    /\ WF_vars(JoinReturns)

\* C16: once the aria2 child has exited, download_with_aria2 returns, also
\* when file_size is unknown (0) and when aria2 fails before the destination
\* file has reached file_size.
C16_ReturnsOnceChildExited ==
    (download.pc # "idle" /\ download.child # "running") ~> (download.pc = "returned")


(***************************************************************************)
(* Further claims about the reader (checked under SpecReader)              *)
(***************************************************************************)
ReadDone == opResult.op = "new"

\* C18: the product_code of an installation that was read is the part of the
\* product-info.json version before its first '-', and it is "AI" when that
\* version holds no '-'.
C18_ProductCodeFallsBackToAI ==
    (ReadDone /\ opResult.result.tag = "Ok" /\ opResult.result.value.some) =>
        LET version == ResolvedBundle(appsDir, opResult.path).info.value.version.value
            code == opResult.result.value.value.version.product_code
        IN  IF \E i \in 1..Len(version) : version[i] = "-"
            THEN \E i \in 1..Len(version) :
                     /\ version[i] = "-"
                     /\ \A j \in 1..(i - 1) : version[j] # "-"
                     /\ code = SubSeq(version, 1, i - 1)
            ELSE code = <<"A","I">>

\* The plist can be read, but its bundle identifier is absent or does not
\* contain "android.studio"
ForeignProduct(bundle) ==
    /\ bundle.plist.some
    /\ bundle.plist.value.parsed
    /\ bundle.plist.value.dict
    /\ \/ ~bundle.plist.value.bundle_id.some
       \/ ~Contains(bundle.plist.value.bundle_id.value,
                    <<"a","n","d","r","o","i","d",".","s","t","u","d","i","o">>)

\* C19: for a path that does not exist, that has not the extension "app", or
\* whose bundle identifier lacks the product-family substring, the reader
\* returns the negative result Ok(None) and no error.
C19_NegativeResultNotError ==
    (/\ ReadDone
     /\ \/ ~HasEntry(appsDir, opResult.path)
        \/ Extension(opResult.path) # Some(<<"a","p","p">>)
        \/ ForeignProduct(ResolvedBundle(appsDir, opResult.path)))
        => opResult.result = OkValue(None)

\* C19 witness: an existing .app bundle of another product, its metadata
\* otherwise complete, was read and the answer was Ok(None).
C19_Witness ==
    /\ ReadDone
    /\ HasEntry(appsDir, opResult.path)
    /\ Extension(opResult.path) = Some(<<"a","p","p">>)
    /\ ~BadMetadata(ResolvedBundle(appsDir, opResult.path))
    /\ ForeignProduct(ResolvedBundle(appsDir, opResult.path))
    /\ opResult.result = OkValue(None)


(***************************************************************************)
(* The list command's view of the disk: handle_list (commands.rs:86-89)    *)
(* takes list_installed_studios().unwrap_or_default() and                  *)
(* get_active_studio().unwrap_or_default(), then annotates each release.   *)
(***************************************************************************)
\* Result<Vec<_>, _>::unwrap_or_default / Result<Option<_>, _>::unwrap_or_default
UnwrapOrDefault(result, default) == IF result.tag = "Ok" THEN result.value ELSE default

\* What list_installed_studios may return: a listing, or the error of a
\* directory that cannot be read
ListInstalledResults(dir) ==
    {OkValue(list) : list \in ListInstalledStudios(dir)}
        \cup {[tag |-> "Err", kind |-> "Io", message |-> <<"read_dir">>]}

InitList ==
    /\ download = NoDownload
    /\ IdleFind
    /\ listItem \in StatusItems
    /\ installedStudios = <<>>
    /\ activeStudio = None
    /\ status = NoResult
    /\ appsDir \in FsDirs
    /\ versionsDir = {}
    /\ opResult = NoOp

\* handle_list, for one displayed release
HandleList ==
    /\ status = NoResult
    /\ \E listed \in ListInstalledResults(appsDir) :
           LET installed == UnwrapOrDefault(listed, <<>>)
               active == UnwrapOrDefault(GetActiveStudio(appsDir), None)
           IN  /\ installedStudios' = installed
               /\ activeStudio' = active
               /\ status' = [tag |-> "Printed",
                             is_installed |-> IsInstalled(listItem, installed),
                             is_selected |-> IsSelected(listItem, active),
                             text |-> StatusText(IsInstalled(listItem, installed),
                                                 IsSelected(listItem, active))]
    /\ UNCHANGED <<download, findVars, diskVars, listItem>>

NextList == HandleList

SpecList == InitList /\ [][NextList]_vars

\* C21: the list command never annotates a release as selected without
\* annotating it as installed.
C21_SelectedImpliesInstalled ==
    status.tag = "Printed" => (status.is_selected => status.is_installed)


\* C24: a switch to a version whose bundle is installed succeeds and leaves
\* the alias as a symlink to that bundle, whatever the alias was before:
\* absent, a symlink to another version, a real directory or a broken symlink.
C24_SwitchSucceedsFromAnyAlias ==
    [][\A v \in FsVersions :
          (/\ opResult'.op = "switch"
           /\ opResult'.version = v
           /\ \E e \in appsDir : e.name = VersionedName(v) /\ e.kind = "dir")
          => /\ opResult'.result.tag = "Ok"
             /\ SymlinkEntry(AliasName, VersionedName(v)) \in appsDir']_vars


(***************************************************************************)
(* The install command up to the download: handle_install resolves the     *)
(* query with the lister, then Installer::install_version_with_progress    *)
(* fetches the feed again and looks the release up by its version string.  *)
(***************************************************************************)
InstallReleases ==
    {[name |-> <<"K">>, build |-> b, version |-> v, channel |-> c] :
        b \in {<<"A">>, <<"B">>}, v \in {<<"1">>, <<"2">>}, c \in {Canary, Release}}

InstallCatalogs == SeqsUpTo(InstallReleases, MaxCatalog)

\* `install <query>`; None stands for `install --latest`
InstallQueries ==
    {None} \cup {Some(q) : q \in {<<"1">>, <<"2">>, <<"B">>, <<"1"," ">> \o Canary, <<"x">>}}

\* What can happen after the lookup: the release has no download for the
\* platform, the download fails, the extraction fails, or all succeed
InstallOutcomes == {"no_platform_download", "download_failed", "extract_failed", "ok"}

\* content.items.iter().find(|item| item.version == version)
FindByVersion(items, version) ==
    LET hit == FirstTrue([i \in 1..Len(items) |-> items[i].version = version])
    IN  IF hit # 0 THEN Some(items[hit]) ELSE None

\* install_version_with_progress (and install_version, which differs only in
\* its messages and the removal of the archive):
\* <<result, item selected, versions directory>>
InstallVersion(fetched, vdir, version, outcome) ==
    LET item == FindByVersion(fetched, version)
    IN  IF ~item.some
        THEN <<StringError(<<"Version ", version, " not found">>), item, vdir>>
        ELSE IF outcome = "no_platform_download"
        THEN <<StringError(<<"No download available for platform">>), item, vdir>>
        ELSE IF version \in vdir
        THEN <<StringError(<<"Version ", version, " is already installed">>), item, vdir>>
        ELSE IF outcome = "download_failed"
        THEN <<StringError(<<"download failed">>), item, vdir \cup {version}>>
        ELSE IF outcome = "extract_failed"
        THEN <<StringError(<<"extraction failed">>), item, vdir \cup {version}>>
        ELSE <<Done, item, vdir \cup {version}>>

InitInstall ==
    /\ download = NoDownload
    /\ feed \in InstallCatalogs
    /\ cacheFile \in {NoFile, CacheFile(0, feed)}
    /\ query = <<>>
    /\ findResult = NoResult
    /\ IdleStatus
    /\ appsDir = {}
    /\ versionsDir \in {{}, {<<"1">>}}
    /\ opResult = NoOp

\* handle_install: the lister's lookup, then the installer's
HandleInstall(q, outcome) ==
    LET got == GetReleases(cacheFile, feed)
        target == IF q.some THEN FindVersionByQuery(got.items, q.value)
                  ELSE GetLatestRelease(got.items)
        r == InstallVersion(feed, versionsDir, target.item.version, outcome)
    IN  /\ opResult = NoOp
        /\ query' = IF q.some THEN q.value ELSE <<>>
        /\ cacheFile' = got.file
        /\ findResult' = target
        /\ IF target.tag = "Ok"
           THEN /\ opResult' = [op |-> "install", version |-> target.item.version,
                                result |-> r[1], item |-> r[2],
                                created |-> r[3] # versionsDir]
                /\ versionsDir' = r[3]
           ELSE /\ opResult' = [op |-> "install", version |-> <<>>,
                                result |-> target, item |-> None, created |-> FALSE]
                /\ versionsDir' = versionsDir
        /\ UNCHANGED <<download, feed, statusVars, appsDir>>

NextInstall == \E q \in InstallQueries, outcome \in InstallOutcomes : HandleInstall(q, outcome)

SpecInstall == InitInstall /\ [][NextInstall]_vars

InstallRan == opResult.op = "install"

\* C25: when the lookup of the install command returned release r, the
\* release the installer selects by r.version is r itself.
C25_InstallerSelectsResolvedRelease ==
    (InstallRan /\ findResult.tag = "Ok") => opResult.item = Some(findResult.item)

\* C26: when the install fails after it has created the directory of the
\* version, that directory does not remain in the versions directory.
C26_FailedInstallLeavesNoDirectory ==
    (InstallRan /\ opResult.created /\ opResult.result.tag = "Err")
        => opResult.version \notin versionsDir


(***************************************************************************)
(* The life of the applications directory: Installer::install_macos copies *)
(* an extracted bundle into it and points the alias at the copy; use and   *)
(* uninstall follow.  The directory starts empty.                          *)
(***************************************************************************)
RECURSIVE Replace(_, _, _)
\* str::replace: every non-overlapping match of `from`, left to right
Replace(s, from, to) ==
    IF s = <<>> THEN <<>>
    ELSE IF Len(s) >= Len(from) /\ SubSeq(s, 1, Len(from)) = from
         THEN to \o Replace(SubSeq(s, Len(from) + 1, Len(s)), from, to)
         ELSE <<Head(s)>> \o Replace(Tail(s), from, to)

\* full_name.replace(" | ", " ").replace(" ", " ")
SafeName(full_name) == Replace(Replace(full_name, <<" ","|"," ">>, <<" ">>), <<" ">>, <<" ">>)

\* The bundle that the extraction of a version left in its directory
ExtractedBundle(version) ==
    [plist |-> GoodPlist(version, <<"A","-","1">>), info |-> GoodInfo(<<"A","-","1">>)]

\* install_macos: <<result, applications directory>>.  `found` tells whether
\* the directory of the version holds an .app bundle, `ditto_ok` whether the
\* copy succeeds; ditto cannot write through a link that does not resolve.
InstallMacos(dir, vdir, version, full_name, found, ditto_ok) ==
    LET versioned_dest_path == SafeName(full_name) \o DotApp
        removed == IF PathExists(dir, versioned_dest_path)
                   THEN RemoveEntry(dir, versioned_dest_path) ELSE dir
        copied == removed \cup {DirEntry(versioned_dest_path, ExtractedBundle(version))}
        cleared == IF PathExists(copied, AliasName) THEN RemoveEntry(copied, AliasName)
                   ELSE copied
    IN  IF version \notin vdir
        THEN <<StringError(<<"Version ", version, " not found in ~/.as-man/versions/">>), dir>>
        ELSE IF ~found
        THEN <<StringError(<<"No Android Studio.app bundle found">>), dir>>
        ELSE IF ~ditto_ok \/ HasEntry(removed, versioned_dest_path)
        THEN <<StringError(<<"Failed to install Android Studio using ditto">>), removed>>
        ELSE IF HasEntry(cleared, AliasName) THEN <<AlreadyExists, cleared>>
        ELSE <<Done, cleared \cup {SymlinkEntry(AliasName, versioned_dest_path)}>>

\* Names a release can carry: as the feed writes them, as the later
\* operations expect them, and the bare product name
LifeNames ==
    {<<"K"," ","|"," ","1">>,
     VersionedPrefix \o <<"1">>,
     VersionedPrefix \o <<"1",".","2">>,
     <<"A","n","d","r","o","i","d"," ","S","t","u","d","i","o">>}

InitLife ==
    /\ download = NoDownload
    /\ IdleFind
    /\ IdleStatus
    /\ appsDir = {}
    /\ versionsDir \in SUBSET FsVersions
    /\ opResult = NoOp

\* install_macos(version, full_name)
InstallApp(version, full_name, found, ditto_ok) ==
    LET r == InstallMacos(appsDir, versionsDir, version, full_name, found, ditto_ok)
    IN  /\ opResult' = [op |-> "install_macos", version |-> version,
                        full_name |-> full_name, result |-> r[1]]
        /\ appsDir' = r[2]
        /\ UNCHANGED <<download, findVars, statusVars, versionsDir>>

\* Every call so far returned success
AllSucceeded == IF opResult.op = "none" THEN TRUE ELSE opResult.result.tag = "Ok"

\* Sequences of calls that each return success; a failed call ends the run
NextLife ==
    /\ AllSucceeded
    /\ \/ \E version \in FsVersions, full_name \in LifeNames, found, ditto_ok \in BOOLEAN :
              InstallApp(version, full_name, found, ditto_ok)
       \/ \E version \in FsVersions : Switch(version)
       \/ \E version \in FsVersions : Uninstall(version)

SpecLife == InitLife /\ [][NextLife]_vars

\* C22: after calls of install_macos, switch_to_version and uninstall_version
\* that each returned success, from an empty applications directory, the
\* alias is absent or a symlink whose target exists, and at most one version
\* is active.
C22_AliasNeverDangles ==
    AllSucceeded =>
        /\ HasEntry(appsDir, AliasName)
              => IsSymlink(appsDir, AliasName) /\ PathExists(appsDir, AliasName)
        /\ \A v, w \in FsVersions :
              IsVersionActive(appsDir, v) /\ IsVersionActive(appsDir, w) => v = w

InstalledApp == opResult.op = "install_macos" /\ opResult.result.tag = "Ok"

\* C23: immediately after install_macos(version, full_name) succeeds, the
\* version is active, switch_to_version(version) does not fail with 'is not
\* installed', and uninstall_version(version) removes the bundle that the
\* install created.
C23_InstallAndLaterOperationsAgreeOnName ==
    InstalledApp =>
        LET v == opResult.version
            sw == SwitchToVersion(appsDir, v)[1]
            un == UninstallVersion(appsDir, versionsDir, v)
        IN  /\ IsVersionActive(appsDir, v)
            /\ sw.tag = "Ok" \/ sw.kind # "Message"
            /\ un[1].tag = "Ok"
            /\ ~HasEntry(un[2], SafeName(opResult.full_name) \o DotApp)


(***************************************************************************)
(* Installer::extract_dmg: the image is attached at a temporary mount      *)
(* point, its .app entries are copied to the destination, and the image   *)
(* is detached.  opResult holds the position of the call and what it has   *)
(* done so far.                                                            *)
(***************************************************************************)
\* Top-level entries an image can hold
DmgEntries ==
    {<<"S">> \o DotApp, <<"P">> \o DotApp, <<"R">>, <<".","b","g">>}

\* The call at position pc: `mounted` is the state of the image, `attached`
\* whether hdiutil attach succeeded, `detach_issued` whether hdiutil detach
\* was run, `app_paths` the bundles still to copy, `copied` the destination
Extracting(pc, image, mounted, attached, detach_issued, app_paths, copied, result) ==
    [op |-> "extract_dmg", pc |-> pc, image |-> image, mounted |-> mounted,
     attached |-> attached, detach_issued |-> detach_issued,
     app_paths |-> app_paths, copied |-> copied, result |-> result]

At(pc) == IF opResult.op = "extract_dmg" THEN opResult.pc = pc ELSE FALSE

InitDmg ==
    /\ download = NoDownload
    /\ IdleFind
    /\ IdleStatus
    /\ appsDir = {}
    /\ versionsDir = {}
    /\ \E image \in SUBSET DmgEntries :
          opResult = Extracting("attach", image, FALSE, FALSE, FALSE, <<>>, {}, NoResult)

\* hdiutil attach ... .status()?, and the test of its exit status
Attach(ok) ==
    /\ At("attach")
    /\ opResult' = IF ok
                   THEN [opResult EXCEPT !.pc = "read_dir", !.mounted = TRUE, !.attached = TRUE]
                   ELSE [opResult EXCEPT !.pc = "done",
                                         !.result = StringError(<<"Failed to mount DMG">>)]
    /\ UNCHANGED <<download, findVars, statusVars, appsDir, versionsDir>>

\* fs::read_dir(mount_point)? and the filter on ".app"; the order of a
\* directory listing is arbitrary
ReadDir(ok) ==
    /\ At("read_dir")
    /\ IF ok
       THEN \E listing \in Arrangements({n \in opResult.image : EndsWith(n, DotApp)}) :
               opResult' = [opResult EXCEPT !.app_paths = listing,
                                !.pc = IF listing = <<>> THEN "detach_empty" ELSE "copy"]
       ELSE opResult' = [opResult EXCEPT !.pc = "done",
                             !.result = [tag |-> "Err", kind |-> "Io",
                                         message |-> <<"read_dir">>]]
    /\ UNCHANGED <<download, findVars, statusVars, appsDir, versionsDir>>

\* if app_paths.is_empty(): hdiutil detach, then the error; the exit status
\* of detach is not looked at
DetachEmpty(ok) ==
    /\ At("detach_empty")
    /\ opResult' = [opResult EXCEPT !.pc = "done", !.detach_issued = TRUE,
                        !.mounted = ~ok,
                        !.result = StringError(<<"No .app bundle found in DMG">>)]
    /\ UNCHANGED <<download, findVars, statusVars, appsDir, versionsDir>>

\* One turn of `for app_path in app_paths`: cp -R, and the test of its status
CopyApp(ok) ==
    /\ At("copy")
    /\ opResult' =
          IF ok
          THEN [opResult EXCEPT !.copied = @ \cup {Head(opResult.app_paths)},
                                !.app_paths = Tail(@),
                                !.pc = IF Len(opResult.app_paths) = 1 THEN "detach" ELSE "copy"]
          ELSE [opResult EXCEPT !.pc = "done",
                                !.result = StringError(<<"Failed to copy app bundle">>)]
    /\ UNCHANGED <<download, findVars, statusVars, appsDir, versionsDir>>

\* The hdiutil detach after the loop, then Ok(())
Detach(ok) ==
    /\ At("detach")
    /\ opResult' = [opResult EXCEPT !.pc = "done", !.detach_issued = TRUE,
                        !.mounted = ~ok, !.result = Done]
    /\ UNCHANGED <<download, findVars, statusVars, appsDir, versionsDir>>

NextDmg ==
    \/ \E ok \in BOOLEAN : Attach(ok)
    \/ \E ok \in BOOLEAN : ReadDir(ok)
    \/ \E ok \in BOOLEAN : DetachEmpty(ok)
    \/ \E ok \in BOOLEAN : CopyApp(ok)
    \/ \E ok \in BOOLEAN : Detach(ok)

SpecDmg == InitDmg /\ [][NextDmg]_vars

\* C27: on every return of extract_dmg after a successful hdiutil attach, a
\* hdiutil detach of the mount point has been issued.
C27_EveryMountIsDetached ==
    (At("done") /\ opResult.attached) => opResult.detach_issued


(***************************************************************************)
(* Ordering against equality of installation records: Eq is derived on    *)
(* InstalledAndroidStudio (path and version), Ord is written by hand.      *)
(***************************************************************************)
\* #[derive(PartialEq, Eq)] on InstalledAndroidStudio: field by field
EqInstalled(a, b) == a.path = b.path /\ a.version = b.version

\* Ordering::reverse
Reverse(o) == IF o = "Less" THEN "Greater" ELSE IF o = "Greater" THEN "Less" ELSE "Equal"

\* C30: a.cmp(b) is Equal exactly when a == b, also for two records of equal
\* version at different paths; and the ordering is total, antisymmetric and
\* transitive.
C30_OrderingAgreesWithEquality ==
    Compared =>
        LET a == installedStudios[1]
            b == installedStudios[2]
        IN  /\ (opResult.result = "Equal") <=> EqInstalled(a, b)
            /\ opResult.result \in {"Less", "Equal", "Greater"}
            /\ CmpInstalled(b, a) = Reverse(opResult.result)
            /\ \A c \in OrdInstalled :
                  (opResult.result # "Greater" /\ CmpInstalled(b, c) # "Greater")
                      => CmpInstalled(a, c) # "Greater"


(***************************************************************************)
(* Channel classification: the predicates is_release .. is_patch against   *)
(* channel_type, which the display of a release goes through.              *)
(***************************************************************************)
\* The releases print_version_info shows with the label "Release"
DisplayedAsRelease(items) == SelectSeq(items, LAMBDA item : ChannelType(item) = "Release")

\* C29: for every channel string, is_release() holds exactly when
\* channel_type() is Release, likewise for Beta, Canary, RC and Patch; the
\* releases displayed as Release are those filter_by_channel(release_only)
\* retains, and get_latest_release returns the first of them.
C29_ClassificationIsConsistent ==
    /\ findResult.tag \in {"Filtered", "Latest"} => \A i \in 1..Len(feed) :
          /\ IsRelease(feed[i]) <=> ChannelType(feed[i]) = "Release"
          /\ IsBeta(feed[i]) <=> ChannelType(feed[i]) = "Beta"
          /\ IsCanary(feed[i]) <=> ChannelType(feed[i]) = "Canary"
          /\ IsRc(feed[i]) <=> ChannelType(feed[i]) = "ReleaseCandidate"
          /\ IsPatch(feed[i]) <=> ChannelType(feed[i]) = "Patch"
    /\ (Filtered /\ findResult.flags = <<TRUE, FALSE, FALSE>>)
          => findResult.items = DisplayedAsRelease(feed)
    /\ findResult.tag = "Latest"
          => IF DisplayedAsRelease(feed) = <<>>
             THEN findResult.result.tag = "Err"
             ELSE findResult.result = Ok(DisplayedAsRelease(feed)[1])


(***************************************************************************)
(* The installed command: handle_installed lists the installations and     *)
(* marks the one whose identifier is that of the active installation.      *)
(***************************************************************************)
\* AndroidStudioVersion::identifier, and InstalledAndroidStudio::identifier
\* which delegates to it
VersionIdentifier(version) == version.build_version
Identifier(installation) == VersionIdentifier(installation.version)

\* The lines handle_installed prints: one per installation, with its mark
InstalledRows(installations, active) ==
    LET active_id == IF active.some THEN Some(Identifier(active.value)) ELSE None
    IN  [i \in 1..Len(installations) |->
            [installation |-> installations[i],
             is_active |-> active_id = Some(Identifier(installations[i]))]]

InitInstalled ==
    /\ download = NoDownload
    /\ IdleFind
    /\ IdleStatus
    /\ appsDir \in ScanDirs
    /\ versionsDir = {}
    /\ opResult = NoOp

\* handle_installed: list_installed_studios()?, and unless the list is
\* empty, get_active_studio()? and the lines
HandleInstalled ==
    /\ opResult = NoOp
    /\ \E listed \in ListInstalledResults(appsDir) :
          LET active == GetActiveStudio(appsDir)
          IN  opResult' =
                 [op |-> "installed",
                  result |-> IF listed.tag # "Ok" THEN listed
                             ELSE IF listed.value = <<>> THEN OkValue(<<>>)
                             ELSE IF active.tag # "Ok" THEN active
                             ELSE OkValue(InstalledRows(listed.value, active.value))]
    /\ UNCHANGED <<download, findVars, statusVars, appsDir, versionsDir>>

NextInstalled == HandleInstalled

SpecInstalled == InitInstalled /\ [][NextInstalled]_vars

\* C28: in the output of the installed command at most one installation is
\* marked Selected, and it is the one at the path the alias resolves to, also
\* when two bundles at different paths carry the same build_version.
C28_OnlyAliasTargetIsSelected ==
    (IF opResult.op = "installed" THEN opResult.result.tag = "Ok" ELSE FALSE) =>
        LET rows == opResult.result.value
            marked == {i \in 1..Len(rows) : rows[i].is_active}
        IN  /\ Cardinality(marked) <= 1
            /\ \A i \in marked :
                  /\ AliasResolves(appsDir)
                  /\ rows[i].installation.path = EntryOf(appsDir, AliasName).target

=============================================================================
